---- MODULE Spec2Model ----
(***************************************************************************)
(* mb-pomodoro: the interval store (db.py), the foreground commands        *)
(* (commands/*.py) and the timer worker (timer_worker.py) as one state     *)
(* machine.  Every SQLite statement group that ends in commit() is one     *)
(* atomic step; a process's reads of the clock and of the store are        *)
(* separate steps, so that other processes can run in between.             *)
(***************************************************************************)
EXTENDS Integers, Sequences, FiniteSets, TLC

\* ------------------------------------------------------------------ bounds
MaxTicks == 2        \* the clock runs from Epoch to Epoch + MaxTicks
MaxIntervals == 2    \* rows the intervals table may hold
MaxEvents == 3       \* no new command begins once the log is this long
MaxDuration == 2     \* start accepts durations 1..MaxDuration seconds
NumProcs == 2        \* concurrent foreground command processes
NumWorkers == 1      \* process slots for timer workers

\* The bounds of SpecW, which has room for two timer workers at a time.
MaxEventsW == 4
NumProcsW == 1
NumWorkersW == 2
MaxPidLen == 3       \* longest text of the pid file (SpecIA)

\* --------------------------------------------------------------- constants
HEARTBEAT_INTERVAL_SEC == 10
NULL == -1           \* SQL NULL in a nullable INTEGER column (timestamps are >= 0)

\* time.time() is far above _HEARTBEAT_INTERVAL_SEC, so that a worker's
\* last_heartbeat = 0 forces a heartbeat on its first iteration.
Epoch == HEARTBEAT_INTERVAL_SEC

Durations == 1..MaxDuration

VARIABLES
    clock,      \* int(time.time()) as any process would read it now
    intervals,  \* the intervals table: a sequence indexed by id (AUTOINCREMENT)
    events,     \* the interval_events table, in insertion order
    fg,         \* foreground command processes: pc, command, the row read, now, result
    wk,         \* timer worker processes: pc, interval id, the row read, now, last_heartbeat
    pidfile,    \* the worker pid file: a worker slot, or NULL when the file is absent
    ew          \* input and output of one isolated call of a pure function (SpecEW, SpecIA)

vars == <<clock, intervals, events, fg, wk, pidfile, ew>>

\* The process slots of the specification at hand (set by its initial state).
Procs == DOMAIN fg
Workers == DOMAIN wk

\* ---------------------------------------------------------------- db.py
IntervalStatus == {"running", "paused", "finished", "completed", "abandoned",
                   "cancelled", "interrupted"}

ACTIVE_STATUSES == {"running", "paused", "interrupted", "finished"}

EventType == {"started", "paused", "resumed", "finished", "completed", "abandoned",
              "cancelled", "interrupted"}

Min(a, b) == IF a < b THEN a ELSE b

\* CREATE UNIQUE INDEX idx_one_active ON intervals((1)) WHERE status IN (...)
idx_one_active(ivs) ==
    Cardinality({i \in DOMAIN ivs :
        ivs[i].status \in {"running", "paused", "finished", "interrupted"}}) <= 1

\* A fetch that found no row.
NoRow == [id |-> 0, status |-> "none", duration_sec |-> 0, worked_sec |-> 0,
          run_started_at |-> NULL, started_at |-> NULL, heartbeat_at |-> NULL]

\* _SELECT_INTERVAL / _to_interval_row: the projection of a table row.
to_interval_row(r) ==
    [id |-> r.id, status |-> r.status, duration_sec |-> r.duration_sec,
     worked_sec |-> r.worked_sec, run_started_at |-> r.run_started_at,
     started_at |-> r.started_at, heartbeat_at |-> r.heartbeat_at]

\* A variant of effective_worked without the clamp to duration_sec (C10 fails of it).
effective_worked_noclamp(row, now) ==
    IF row.status = "running" /\ row.run_started_at # NULL
    THEN row.worked_sec + (now - row.run_started_at)
    ELSE row.worked_sec

\* IntervalRow.effective_worked
effective_worked(row, now) ==
    IF row.status = "running" /\ row.run_started_at # NULL
    THEN Min(row.worked_sec + (now - row.run_started_at), row.duration_sec)
    ELSE row.worked_sec

\* Db._insert_event
insert_event(evs, interval_id, event_type, event_at) ==
    Append(evs, [interval_id |-> interval_id, event_type |-> event_type,
                 event_at |-> event_at])

\* Db.fetch_latest_interval: ORDER BY started_at DESC LIMIT 1.  SQL leaves the
\* choice among rows with equal started_at open: every such row is a possible result.
fetch_latest_interval(ivs) ==
    IF Len(ivs) = 0 THEN {NoRow}
    ELSE {to_interval_row(ivs[i]) : i \in {j \in DOMAIN ivs :
            \A k \in DOMAIN ivs : ivs[k].started_at <= ivs[j].started_at}}

\* Db.fetch_interval
fetch_interval(ivs, interval_id) ==
    IF interval_id \in DOMAIN ivs THEN to_interval_row(ivs[interval_id]) ELSE NoRow

Unchanged(ivs, evs) == [ok |-> FALSE, id |-> 0, intervals |-> ivs, events |-> evs]

NewInterval(ivs, duration_sec, now) ==
    [id |-> Len(ivs) + 1, duration_sec |-> duration_sec, status |-> "running",
     started_at |-> now, ended_at |-> NULL, worked_sec |-> 0,
     run_started_at |-> now, heartbeat_at |-> NULL]

\* A variant of insert_interval without the unique index idx_one_active (C1, C2 fail of it).
insert_interval_noindex(ivs, evs, duration_sec, now) ==
    [ok |-> TRUE, id |-> Len(ivs) + 1,
     intervals |-> Append(ivs, NewInterval(ivs, duration_sec, now)),
     events |-> insert_event(evs, Len(ivs) + 1, "started", now)]

\* Db.insert_interval: the INSERT raises IntegrityError when idx_one_active would
\* be violated, and then nothing is written.
insert_interval(ivs, evs, duration_sec, now) ==
    IF idx_one_active(Append(ivs, NewInterval(ivs, duration_sec, now)))
    THEN [ok |-> TRUE, id |-> Len(ivs) + 1,
          intervals |-> Append(ivs, NewInterval(ivs, duration_sec, now)),
          events |-> insert_event(evs, Len(ivs) + 1, "started", now)]
    ELSE Unchanged(ivs, evs)

\* A variant of finish_interval that leaves worked_sec as it was (C33 fails of it).
finish_interval_keepworked(ivs, evs, interval_id, duration_sec, now) ==
    IF interval_id \in DOMAIN ivs /\ ivs[interval_id].status = "running"
    THEN [ok |-> TRUE, id |-> interval_id,
          intervals |-> [ivs EXCEPT ![interval_id] =
              [@ EXCEPT !.status = "finished", !.ended_at = now,
                        !.run_started_at = NULL, !.heartbeat_at = NULL]],
          events |-> insert_event(evs, interval_id, "finished", now)]
    ELSE Unchanged(ivs, evs)

\* A variant of finish_interval whose UPDATE has no condition on the status
\* (C17 fails of it).
finish_interval_anystatus(ivs, evs, interval_id, duration_sec, now) ==
    IF interval_id \in DOMAIN ivs
    THEN [ok |-> TRUE, id |-> interval_id,
          intervals |-> [ivs EXCEPT ![interval_id] =
              [@ EXCEPT !.status = "finished", !.worked_sec = duration_sec,
                        !.ended_at = now, !.run_started_at = NULL,
                        !.heartbeat_at = NULL]],
          events |-> insert_event(evs, interval_id, "finished", now)]
    ELSE Unchanged(ivs, evs)

\* A variant of finish_interval that commits the UPDATE without its event (C5 fails of it).
finish_interval_noevent(ivs, evs, interval_id, duration_sec, now) ==
    IF interval_id \in DOMAIN ivs /\ ivs[interval_id].status = "running"
    THEN [ok |-> TRUE, id |-> interval_id,
          intervals |-> [ivs EXCEPT ![interval_id] =
              [@ EXCEPT !.status = "finished", !.worked_sec = duration_sec,
                        !.ended_at = now, !.run_started_at = NULL,
                        !.heartbeat_at = NULL]],
          events |-> evs]
    ELSE Unchanged(ivs, evs)

\* Db.finish_interval
finish_interval(ivs, evs, interval_id, duration_sec, now) ==
    IF interval_id \in DOMAIN ivs /\ ivs[interval_id].status = "running"
    THEN [ok |-> TRUE, id |-> interval_id,
          intervals |-> [ivs EXCEPT ![interval_id] =
              [@ EXCEPT !.status = "finished", !.worked_sec = duration_sec,
                        !.ended_at = now, !.run_started_at = NULL,
                        !.heartbeat_at = NULL]],
          events |-> insert_event(evs, interval_id, "finished", now)]
    ELSE Unchanged(ivs, evs)

\* A variant of resolve_interval whose UPDATE has no condition on the status (C8 fails of it).
resolve_interval_anystatus(ivs, evs, interval_id, resolution, now) ==
    IF interval_id \in DOMAIN ivs
    THEN [ok |-> TRUE, id |-> interval_id,
          intervals |-> [ivs EXCEPT ![interval_id] = [@ EXCEPT !.status = resolution]],
          events |-> insert_event(evs, interval_id, resolution, now)]
    ELSE Unchanged(ivs, evs)

\* A variant of resolve_interval that stamps ended_at with the time of the
\* resolution (C28 fails of it).
resolve_interval_ended(ivs, evs, interval_id, resolution, now) ==
    IF interval_id \in DOMAIN ivs /\ ivs[interval_id].status = "finished"
    THEN [ok |-> TRUE, id |-> interval_id,
          intervals |-> [ivs EXCEPT ![interval_id] =
              [@ EXCEPT !.status = resolution, !.ended_at = now]],
          events |-> insert_event(evs, interval_id, resolution, now)]
    ELSE Unchanged(ivs, evs)

\* Db.resolve_interval
resolve_interval(ivs, evs, interval_id, resolution, now) ==
    IF interval_id \in DOMAIN ivs /\ ivs[interval_id].status = "finished"
    THEN [ok |-> TRUE, id |-> interval_id,
          intervals |-> [ivs EXCEPT ![interval_id] = [@ EXCEPT !.status = resolution]],
          events |-> insert_event(evs, interval_id, resolution, now)]
    ELSE Unchanged(ivs, evs)

\* A variant of pause_interval that leaves heartbeat_at as it was (C27 fails of it).
pause_interval_keepheartbeat(ivs, evs, interval_id, worked_sec, now) ==
    IF interval_id \in DOMAIN ivs /\ ivs[interval_id].status = "running"
    THEN [ok |-> TRUE, id |-> interval_id,
          intervals |-> [ivs EXCEPT ![interval_id] =
              [@ EXCEPT !.status = "paused", !.worked_sec = worked_sec,
                        !.run_started_at = NULL]],
          events |-> insert_event(evs, interval_id, "paused", now)]
    ELSE Unchanged(ivs, evs)

\* A variant of pause_interval that leaves its event behind when no row matched (C4 fails of it).
pause_interval_eventfirst(ivs, evs, interval_id, worked_sec, now) ==
    IF interval_id \in DOMAIN ivs /\ ivs[interval_id].status = "running"
    THEN [ok |-> TRUE, id |-> interval_id,
          intervals |-> [ivs EXCEPT ![interval_id] =
              [@ EXCEPT !.status = "paused", !.worked_sec = worked_sec,
                        !.run_started_at = NULL, !.heartbeat_at = NULL]],
          events |-> insert_event(evs, interval_id, "paused", now)]
    ELSE [ok |-> FALSE, id |-> 0, intervals |-> ivs,
          events |-> insert_event(evs, interval_id, "paused", now)]

\* Db.pause_interval
pause_interval(ivs, evs, interval_id, worked_sec, now) ==
    IF interval_id \in DOMAIN ivs /\ ivs[interval_id].status = "running"
    THEN [ok |-> TRUE, id |-> interval_id,
          intervals |-> [ivs EXCEPT ![interval_id] =
              [@ EXCEPT !.status = "paused", !.worked_sec = worked_sec,
                        !.run_started_at = NULL, !.heartbeat_at = NULL]],
          events |-> insert_event(evs, interval_id, "paused", now)]
    ELSE Unchanged(ivs, evs)

\* Db.resume_interval (the row it updates is already the one active row, so the
\* UPDATE cannot violate idx_one_active)
resume_interval(ivs, evs, interval_id, now) ==
    IF interval_id \in DOMAIN ivs /\ ivs[interval_id].status \in {"paused", "interrupted"}
    THEN [ok |-> TRUE, id |-> interval_id,
          intervals |-> [ivs EXCEPT ![interval_id] =
              [@ EXCEPT !.status = "running", !.run_started_at = now]],
          events |-> insert_event(evs, interval_id, "resumed", now)]
    ELSE Unchanged(ivs, evs)

\* A variant of cancel_interval that also matches a finished row (C3, C7 fail of it).
cancel_interval_active(ivs, evs, interval_id, worked_sec, now) ==
    IF interval_id \in DOMAIN ivs /\ ivs[interval_id].status \in ACTIVE_STATUSES
    THEN [ok |-> TRUE, id |-> interval_id,
          intervals |-> [ivs EXCEPT ![interval_id] =
              [@ EXCEPT !.status = "cancelled", !.worked_sec = worked_sec,
                        !.ended_at = now, !.run_started_at = NULL,
                        !.heartbeat_at = NULL]],
          events |-> insert_event(evs, interval_id, "cancelled", now)]
    ELSE Unchanged(ivs, evs)

\* Db.cancel_interval
cancel_interval(ivs, evs, interval_id, worked_sec, now) ==
    IF interval_id \in DOMAIN ivs
       /\ ivs[interval_id].status \in {"running", "paused", "interrupted"}
    THEN [ok |-> TRUE, id |-> interval_id,
          intervals |-> [ivs EXCEPT ![interval_id] =
              [@ EXCEPT !.status = "cancelled", !.worked_sec = worked_sec,
                        !.ended_at = now, !.run_started_at = NULL,
                        !.heartbeat_at = NULL]],
          events |-> insert_event(evs, interval_id, "cancelled", now)]
    ELSE Unchanged(ivs, evs)

\* A variant of update_heartbeat whose UPDATE has no status condition (C29 fails of it).
update_heartbeat_anystatus(ivs, evs, interval_id, now) ==
    IF interval_id \in DOMAIN ivs
    THEN [ok |-> TRUE, id |-> interval_id,
          intervals |-> [ivs EXCEPT ![interval_id] = [@ EXCEPT !.heartbeat_at = now]],
          events |-> evs]
    ELSE Unchanged(ivs, evs)

\* A variant of update_heartbeat that appends an event (C6 fails of it).
update_heartbeat_logged(ivs, evs, interval_id, now) ==
    IF interval_id \in DOMAIN ivs /\ ivs[interval_id].status = "running"
    THEN [ok |-> TRUE, id |-> interval_id,
          intervals |-> [ivs EXCEPT ![interval_id] = [@ EXCEPT !.heartbeat_at = now]],
          events |-> insert_event(evs, interval_id, "started", now)]
    ELSE Unchanged(ivs, evs)

\* Db.update_heartbeat (returns nothing; ok only tells whether a row matched)
update_heartbeat(ivs, evs, interval_id, now) ==
    IF interval_id \in DOMAIN ivs /\ ivs[interval_id].status = "running"
    THEN [ok |-> TRUE, id |-> interval_id,
          intervals |-> [ivs EXCEPT ![interval_id] = [@ EXCEPT !.heartbeat_at = now]],
          events |-> evs]
    ELSE Unchanged(ivs, evs)

\* A variant of recovered_worked_sec that credits the time up to the recovery
\* instead of the time up to the last heartbeat (C12 fails of it).
recovered_worked_sec_from_now(r, now) ==
    IF r.run_started_at # NULL
    THEN Min(r.worked_sec + (now - r.run_started_at), r.duration_sec)
    ELSE r.worked_sec

\* The CASE expression of Db.recover_running_interval's UPDATE.
recovered_worked_sec(r, now) ==
    IF r.heartbeat_at # NULL /\ r.run_started_at # NULL
    THEN Min(r.worked_sec + (r.heartbeat_at - r.run_started_at), r.duration_sec)
    ELSE r.worked_sec

\* A variant of recover_running_interval whose WHERE clause names the wrong
\* status, so that it never finds the running row (C23 fails of it).
recover_running_interval_paused(ivs, evs, interval_id, now) ==
    IF interval_id \in DOMAIN ivs /\ ivs[interval_id].status = "paused"
    THEN [ok |-> TRUE, id |-> interval_id,
          intervals |-> [ivs EXCEPT ![interval_id] =
              [@ EXCEPT !.status = "interrupted",
                        !.worked_sec = recovered_worked_sec(ivs[interval_id], now),
                        !.run_started_at = NULL, !.heartbeat_at = NULL]],
          events |-> insert_event(evs, interval_id, "interrupted", now)]
    ELSE Unchanged(ivs, evs)

\* Db.recover_running_interval
recover_running_interval(ivs, evs, interval_id, now) ==
    IF interval_id \in DOMAIN ivs /\ ivs[interval_id].status = "running"
    THEN [ok |-> TRUE, id |-> interval_id,
          intervals |-> [ivs EXCEPT ![interval_id] =
              [@ EXCEPT !.status = "interrupted",
                        !.worked_sec = recovered_worked_sec(ivs[interval_id], now),
                        !.run_started_at = NULL, !.heartbeat_at = NULL]],
          events |-> insert_event(evs, interval_id, "interrupted", now)]
    ELSE Unchanged(ivs, evs)

\* ------------------------------------------------------- timer_worker.py
\* Printing an outcome touches nothing shared, so a process that has its outcome
\* ends before any other process takes a step.
Reporting == \E p \in Procs : fg[p].pc = "report"

\* is_alive(pid_path): the pid file exists and holds the id of a live process
\* (a worker slot is a process id; a slot that is not free is a live python process).
is_alive ==
    /\ pidfile # NULL
    /\ wk[pidfile].pc # "free"

IdleWorker == [pc |-> "free", id |-> 0, row |-> NoRow, now |-> NULL,
               last_heartbeat |-> 0]

\* spawn_timer_worker / spawn_detached: Popen either fails (no process) or starts
\* a detached process in a free slot; the caller does not wait for it.
Spawned(interval_id) ==
    {wk} \cup {[wk EXCEPT ![w] = [IdleWorker EXCEPT !.pc = "boot", !.id = interval_id]] :
               w \in {v \in Workers : wk[v].pc = "free"}}

\* ----------------------------------------------------------- commands/*.py
\* A command process that is not running a command.
IdleProc == [pc |-> "done", cmd |-> "none", row |-> NoRow, nev |-> 0,
             read_at |-> NULL, result |-> "none", message |-> ""]

\* print_error_and_exit / print_<outcome>: the command has its outcome.
Outcome(p, cmd, result, message) ==
    fg' = [fg EXCEPT ![p] = [IdleProc EXCEPT !.pc = "report", !.cmd = cmd,
                                             !.result = result, !.message = message]]

\* Number of events the log holds for an interval (kept with the row a command
\* read, to tell how many transitions happened between its read and its write).
EventCount(evs, interval_id) ==
    Cardinality({i \in DOMAIN evs : evs[i].interval_id = interval_id})

\* What a process keeps of the row it fetched: the columns it goes on to read.
\* effective_worked reads status, worked_sec, run_started_at and duration_sec;
\* the other callers pass row.id on and read nothing else that reaches the store.
Kept(row, timed) ==
    IF timed
    THEN [row EXCEPT !.started_at = NULL, !.heartbeat_at = NULL]
    ELSE [NoRow EXCEPT !.id = row.id, !.status = row.status]

\* The status a command requires of the row it read (its early return otherwise).
ReadOk(cmd, row) ==
    CASE cmd = "start"   -> ~(row # NoRow /\ row.status \in ACTIVE_STATUSES)
      [] cmd = "pause"   -> row # NoRow /\ row.status = "running" /\ row.run_started_at # NULL
      [] cmd = "resume"  -> row # NoRow /\ row.status \in {"paused", "interrupted"}
      [] cmd = "cancel"  -> row # NoRow /\ row.status \in {"running", "paused", "interrupted"}
      [] cmd = "finish"  -> row # NoRow /\ row.status = "finished"

\* The message of a command whose read fails its check.
ReadMessage(cmd) ==
    CASE cmd = "start"   -> "An active interval already exists."
      [] cmd = "pause"   -> "No running interval to pause."
      [] cmd = "resume"  -> "No paused or interrupted interval to resume."
      [] cmd = "cancel"  -> "No active interval to cancel."
      [] cmd = "finish"  -> "No finished interval to resolve."

\* The error code of a command whose read fails its check.
ReadError(cmd) ==
    CASE cmd = "start"   -> "ACTIVE_INTERVAL_EXISTS"
      [] cmd = "pause"   -> "NOT_RUNNING"
      [] cmd = "resume"  -> "NOT_RESUMABLE"
      [] cmd = "cancel"  -> "NO_ACTIVE_INTERVAL"
      [] cmd = "finish"  -> "NOT_FINISHED"

Commands == {"start", "pause", "resume", "cancel", "finish"}

\* A command starts in an idle process (processes are interchangeable: the lowest
\* idle one is taken), reads row = fetch_latest_interval() and checks it.
ReadWithin(p, cmd, maxEvents) ==
    /\ ~Reporting
    /\ fg[p].pc = "done"
    /\ \A q \in Procs : q < p => fg[q].pc # "done"
    /\ Len(events) < maxEvents
    /\ cmd = "start" => Len(intervals) < MaxIntervals
    /\ \E row \in fetch_latest_interval(intervals) :
          IF ReadOk(cmd, row)
          THEN fg' = [fg EXCEPT ![p] =
                  [pc |-> "commit", cmd |-> cmd,
                   row |-> Kept(row, cmd \in {"pause", "cancel"}),
                   nev |-> EventCount(events, row.id), read_at |-> clock,
                   result |-> "none", message |-> ""]]
          ELSE Outcome(p, cmd, ReadError(cmd), ReadMessage(cmd))
    /\ UNCHANGED <<clock, intervals, events, wk, pidfile, ew>>

Read(p, cmd) == ReadWithin(p, cmd, MaxEvents)

\* The store call of command c on the row it read, with now = int(time.time()).
\* start's duration_sec and finish's resolution are the command's arguments.
Mutation(c, now, duration_sec, resolution) ==
    CASE c.cmd = "start"   -> insert_interval(intervals, events, duration_sec, now)
      [] c.cmd = "pause"   -> pause_interval(intervals, events, c.row.id,
                                             effective_worked(c.row, now), now)
      [] c.cmd = "resume"  -> resume_interval(intervals, events, c.row.id, now)
      [] c.cmd = "cancel"  -> cancel_interval(intervals, events, c.row.id,
                                              effective_worked(c.row, now), now)
      [] c.cmd = "finish"  -> resolve_interval(intervals, events, c.row.id,
                                               resolution, now)

\* A variant of CommitError that reports a failed store call with the code of
\* the failed read (C26 fails of it).
CommitError_asread(cmd) == ReadError(cmd)

\* The error code of a command whose store call fails.
CommitError(cmd) ==
    IF cmd = "start" THEN "ACTIVE_INTERVAL_EXISTS" ELSE "CONCURRENT_MODIFICATION"

\* The message of a command whose store call fails.
CommitMessage(cmd) ==
    IF cmd = "start" THEN "Another interval was started concurrently."
    ELSE "Interval was modified concurrently."

\* A variant of Commit that takes the transition back when the spawn fails
\* (C22 fails of it).
Commit_undo(p) ==
    /\ ~Reporting
    /\ fg[p].pc = "commit"
    /\ fg[p].cmd \in Commands
    /\ fg[p].cmd = "start" => Len(intervals) < MaxIntervals
    /\ \E now \in fg[p].read_at..clock :
       \E d \in IF fg[p].cmd = "start" THEN Durations ELSE {0} :
       \E r \in IF fg[p].cmd = "finish" THEN {"completed", "abandoned"} ELSE {"none"} :
         LET m == Mutation(fg[p], now, d, r) IN
         IF ~m.ok
         THEN /\ Outcome(p, fg[p].cmd, CommitError(fg[p].cmd), CommitMessage(fg[p].cmd))
              /\ UNCHANGED <<intervals, events, wk>>
         ELSE IF fg[p].cmd \in {"start", "resume"}
         THEN \E w2 \in Spawned(m.id) :
                 /\ wk' = w2
                 /\ intervals' = IF w2 = wk THEN intervals ELSE m.intervals
                 /\ events' = IF w2 = wk THEN events ELSE m.events
                 /\ Outcome(p, fg[p].cmd, IF w2 = wk THEN "SPAWN_FAILED" ELSE "OK", "")
         ELSE /\ Outcome(p, fg[p].cmd, "OK", "")
              /\ intervals' = m.intervals
              /\ events' = m.events
              /\ wk' = wk
    /\ UNCHANGED <<clock, pidfile, ew>>

\* The conditional mutation, and for start and resume the spawn of a worker.
\* now was read from the clock at some moment between the fetch and this call.
Commit(p) ==
    /\ ~Reporting
    /\ fg[p].pc = "commit"
    /\ fg[p].cmd \in Commands
    /\ fg[p].cmd = "start" => Len(intervals) < MaxIntervals
    /\ \E now \in fg[p].read_at..clock :
       \E d \in IF fg[p].cmd = "start" THEN Durations ELSE {0} :
       \E r \in IF fg[p].cmd = "finish" THEN {"completed", "abandoned"} ELSE {"none"} :
         LET m == Mutation(fg[p], now, d, r) IN
         /\ intervals' = m.intervals
         /\ events' = m.events
         /\ IF ~m.ok
            THEN Outcome(p, fg[p].cmd, CommitError(fg[p].cmd), CommitMessage(fg[p].cmd))
                 /\ wk' = wk
            ELSE IF fg[p].cmd \in {"start", "resume"}
            THEN \E w2 \in Spawned(m.id) :
                    /\ wk' = w2
                    /\ Outcome(p, fg[p].cmd, IF w2 = wk THEN "SPAWN_FAILED" ELSE "OK", "")
            ELSE Outcome(p, fg[p].cmd, "OK", "") /\ wk' = wk
    /\ UNCHANGED <<clock, pidfile, ew>>

\* Crash recovery, first half: a process finds the latest interval running while
\* is_alive() is false, and goes on to recover it.
RecoveryCheckWithin(p, maxEvents) ==
    /\ ~Reporting
    /\ fg[p].pc = "done"
    /\ \A q \in Procs : q < p => fg[q].pc # "done"
    /\ Len(events) < maxEvents
    /\ ~is_alive
    /\ \E row \in fetch_latest_interval(intervals) :
          /\ row # NoRow
          /\ row.status = "running"
          /\ fg' = [fg EXCEPT ![p] =
                  [pc |-> "commit", cmd |-> "recover", row |-> Kept(row, FALSE),
                   nev |-> EventCount(events, row.id), read_at |-> clock,
                   result |-> "none", message |-> ""]]
    /\ UNCHANGED <<clock, intervals, events, wk, pidfile, ew>>

RecoveryCheck(p) == RecoveryCheckWithin(p, MaxEvents)

\* Crash recovery, second half: recover_running_interval(row.id, now).
Recover(p) ==
    /\ ~Reporting
    /\ fg[p].pc = "commit"
    /\ fg[p].cmd = "recover"
    /\ \E now \in fg[p].read_at..clock :
         LET m == recover_running_interval(intervals, events, fg[p].row.id, now) IN
         /\ intervals' = m.intervals
         /\ events' = m.events
         /\ Outcome(p, "recover", IF m.ok THEN "OK" ELSE "CONCURRENT_MODIFICATION", "")
    /\ UNCHANGED <<clock, wk, pidfile, ew>>

\* The command process is killed inside its store call, before conn.commit():
\* SQLite rolls the open transaction back, so no other process ever sees a part of it.
Crash(p) ==
    /\ ~Reporting
    /\ fg[p].pc = "commit"
    /\ Outcome(p, fg[p].cmd, "KILLED", "")
    /\ UNCHANGED <<clock, intervals, events, wk, pidfile, ew>>

\* The command prints its outcome and its process ends.
Report(p) ==
    /\ fg[p].pc = "report"
    /\ fg' = [fg EXCEPT ![p] = IdleProc]
    /\ UNCHANGED <<clock, intervals, events, wk, pidfile, ew>>

\* ------------------------------------------------- timer_worker.py: _run
\* A worker's locals at a point of the loop where row and now are dead (they are
\* assigned again before the next read of them).
At(w, pc) == [wk[w] EXCEPT !.pc = pc, !.row = NoRow, !.now = NULL]

\* A variant of AfterHeartbeat that compares with > instead of >= (C20 fails of it).
AfterHeartbeat_strict(w, now) ==
    IF effective_worked(wk[w].row, now) > wk[w].row.duration_sec
    THEN [wk[w] EXCEPT !.pc = "finish", !.now = now]
    ELSE At(w, "fetch")

\* After the heartbeat: effective_worked = row.effective_worked(now); at or past
\* duration_sec the worker goes on to finish_interval, else it sleeps and polls again.
AfterHeartbeat(w, now) ==
    IF effective_worked(wk[w].row, now) >= wk[w].row.duration_sec
    THEN [wk[w] EXCEPT !.pc = "finish", !.now = now]
    ELSE At(w, "fetch")

\* _write_pid_file(cfg.pid_path); conn = get_connection(...); last_heartbeat = 0
WBoot(w) ==
    /\ ~Reporting
    /\ wk[w].pc = "boot"
    /\ pidfile' = w
    /\ wk' = [wk EXCEPT ![w].pc = "fetch", ![w].last_heartbeat = 0]
    /\ UNCHANGED <<clock, intervals, events, fg, ew>>

\* A variant of WFetch that breaks only when the row is absent (C16 fails of it).
WFetch_absentonly(w) ==
    /\ ~Reporting
    /\ wk[w].pc = "fetch"
    /\ LET row == fetch_interval(intervals, wk[w].id) IN
         wk' = [wk EXCEPT ![w] = IF row = NoRow
                                 THEN At(w, "exit")
                                 ELSE [wk[w] EXCEPT !.pc = "clock",
                                                    !.row = Kept(row, TRUE)]]
    /\ UNCHANGED <<clock, intervals, events, fg, pidfile, ew>>

\* row = db.fetch_interval(conn, interval_id); break unless it is running
WFetch(w) ==
    /\ ~Reporting
    /\ wk[w].pc = "fetch"
    /\ LET row == fetch_interval(intervals, wk[w].id) IN
         wk' = [wk EXCEPT ![w] = IF row = NoRow \/ row.status # "running"
                                 THEN At(w, "exit")
                                 ELSE [wk[w] EXCEPT !.pc = "clock",
                                                    !.row = Kept(row, TRUE)]]
    /\ UNCHANGED <<clock, intervals, events, fg, pidfile, ew>>

\* now = int(time.time()), and whether a heartbeat is due
WClock(w) ==
    /\ ~Reporting
    /\ wk[w].pc = "clock"
    /\ wk' = [wk EXCEPT ![w] =
                IF clock - wk[w].last_heartbeat >= HEARTBEAT_INTERVAL_SEC
                THEN [wk[w] EXCEPT !.pc = "heartbeat", !.now = clock]
                ELSE AfterHeartbeat(w, clock)]
    /\ UNCHANGED <<clock, intervals, events, fg, pidfile, ew>>

\* db.update_heartbeat(conn, interval_id, now); last_heartbeat = now
WHeartbeat(w) ==
    /\ ~Reporting
    /\ wk[w].pc = "heartbeat"
    /\ LET m == update_heartbeat(intervals, events, wk[w].id, wk[w].now) IN
         /\ intervals' = m.intervals
         /\ events' = m.events
    /\ wk' = [wk EXCEPT ![w] = [AfterHeartbeat(w, wk[w].now) EXCEPT
                                   !.last_heartbeat = wk[w].now]]
    /\ UNCHANGED <<clock, fg, pidfile, ew>>

\* A variant of WFinish that goes on to the notification whatever finish_interval
\* returned (C18 fails of it).
WFinish_ignoreresult(w) ==
    /\ ~Reporting
    /\ wk[w].pc = "finish"
    /\ LET m == finish_interval(intervals, events, wk[w].id,
                                wk[w].row.duration_sec, wk[w].now) IN
         /\ intervals' = m.intervals
         /\ events' = m.events
         /\ wk' = [wk EXCEPT ![w] = At(w, "notify")]
    /\ UNCHANGED <<clock, fg, pidfile, ew>>

\* db.finish_interval(conn, interval_id, row.duration_sec, now)
WFinish(w) ==
    /\ ~Reporting
    /\ wk[w].pc = "finish"
    /\ LET m == finish_interval(intervals, events, wk[w].id,
                                wk[w].row.duration_sec, wk[w].now) IN
         /\ intervals' = m.intervals
         /\ events' = m.events
         /\ wk' = [wk EXCEPT ![w] = At(w, IF m.ok THEN "notify" ELSE "exit")]
    /\ UNCHANGED <<clock, fg, pidfile, ew>>

\* A variant of WNotify without the check "if resolution:", which stores whatever
\* send_notification returned (C19 fails of it).
WNotify_nocheck(w) ==
    /\ ~Reporting
    /\ wk[w].pc = "notify"
    /\ \E r \in {"completed", "abandoned", "none"} :
         LET m == resolve_interval(intervals, events, wk[w].id, r, clock) IN
         /\ intervals' = m.intervals
         /\ events' = m.events
    /\ wk' = [wk EXCEPT ![w] = At(w, "exit")]
    /\ UNCHANGED <<clock, fg, pidfile, ew>>

\* resolution = send_notification(): completed, abandoned, or None; a resolution
\* is stored with db.resolve_interval(conn, interval_id, resolution, int(time.time()))
WNotify(w) ==
    /\ ~Reporting
    /\ wk[w].pc = "notify"
    /\ \E r \in {"completed", "abandoned", "none"} :
         LET m == IF r = "none" THEN Unchanged(intervals, events)
                  ELSE resolve_interval(intervals, events, wk[w].id, r, clock) IN
         /\ intervals' = m.intervals
         /\ events' = m.events
    /\ wk' = [wk EXCEPT ![w] = At(w, "exit")]
    /\ UNCHANGED <<clock, fg, pidfile, ew>>

\* finally: conn.close(); cfg.pid_path.unlink(missing_ok=True); the process ends
WExit(w) ==
    /\ ~Reporting
    /\ wk[w].pc = "exit"
    /\ pidfile' = NULL
    /\ wk' = [wk EXCEPT ![w] = IdleWorker]
    /\ UNCHANGED <<clock, intervals, events, fg, ew>>

\* The worker process is killed: no finally block runs, the pid file stays.
WCrash(w) ==
    /\ ~Reporting
    /\ wk[w].pc \notin {"free"}
    /\ wk' = [wk EXCEPT ![w] = IdleWorker]
    /\ UNCHANGED <<clock, intervals, events, fg, pidfile, ew>>

\* One second passes.
Tick ==
    /\ ~Reporting
    /\ clock < Epoch + MaxTicks
    /\ clock' = clock + 1
    /\ UNCHANGED <<intervals, events, fg, wk, pidfile, ew>>

EwIdle == [pc |-> "idle", row |-> NoRow, now |-> 0, out |-> 0]

Init ==
    /\ clock = Epoch
    /\ intervals = <<>>
    /\ events = <<>>
    /\ fg = [p \in 1..NumProcs |-> IdleProc]
    /\ wk = [w \in 1..NumWorkers |-> IdleWorker]
    /\ pidfile = NULL
    /\ ew = EwIdle

Next ==
    \/ \E p \in Procs : \E c \in Commands : Read(p, c)
    \/ \E p \in Procs : Commit(p)
    \/ \E p \in Procs : RecoveryCheck(p)
    \/ \E p \in Procs : Recover(p)
    \/ \E p \in Procs : Crash(p)
    \/ \E p \in Procs : Report(p)
    \/ \E w \in Workers : WBoot(w)
    \/ \E w \in Workers : WFetch(w)
    \/ \E w \in Workers : WClock(w)
    \/ \E w \in Workers : WHeartbeat(w)
    \/ \E w \in Workers : WFinish(w)
    \/ \E w \in Workers : WNotify(w)
    \/ \E w \in Workers : WExit(w)
    \/ \E w \in Workers : WCrash(w)
    \/ Tick

Spec == Init /\ [][Next]_vars

\* ------------------------------------------- the seconds an interval has run
\* The same program with a record kept beside it: for every interval, the number
\* of seconds that have passed while its stored status was running.
RanNone == [pc |-> "ran", ran |-> [i \in 1..MaxIntervals |-> 0]]

InitRun ==
    /\ clock = Epoch
    /\ intervals = <<>>
    /\ events = <<>>
    /\ fg = [p \in 1..NumProcs |-> IdleProc]
    /\ wk = [w \in 1..NumWorkers |-> IdleWorker]
    /\ pidfile = NULL
    /\ ew = RanNone

\* One second passes, and counts for the intervals that are running.
TickRun ==
    /\ ~Reporting
    /\ clock < Epoch + MaxTicks
    /\ clock' = clock + 1
    /\ ew' = [ew EXCEPT !.ran = [i \in 1..MaxIntervals |->
                 IF i \in DOMAIN intervals /\ intervals[i].status = "running"
                 THEN ew.ran[i] + 1 ELSE ew.ran[i]]]
    /\ UNCHANGED <<intervals, events, fg, wk, pidfile>>

NextRun ==
    \/ \E p \in Procs : \E c \in Commands : Read(p, c)
    \/ \E p \in Procs : Commit(p)
    \/ \E p \in Procs : RecoveryCheck(p)
    \/ \E p \in Procs : Recover(p)
    \/ \E p \in Procs : Crash(p)
    \/ \E p \in Procs : Report(p)
    \/ \E w \in Workers : WBoot(w)
    \/ \E w \in Workers : WFetch(w)
    \/ \E w \in Workers : WClock(w)
    \/ \E w \in Workers : WHeartbeat(w)
    \/ \E w \in Workers : WFinish(w)
    \/ \E w \in Workers : WNotify(w)
    \/ \E w \in Workers : WExit(w)
    \/ \E w \in Workers : WCrash(w)
    \/ TickRun

SpecRun == InitRun /\ [][NextRun]_vars

\* ------------------------------------------------ room for two timer workers
\* The same processes with two worker slots, so that a worker spawned while an
\* earlier one is still alive gets a process of its own; one command at a time.
ReadW(p, cmd) == ReadWithin(p, cmd, MaxEventsW)

RecoveryCheckW(p) == RecoveryCheckWithin(p, MaxEventsW)

InitW ==
    /\ clock = Epoch
    /\ intervals = <<>>
    /\ events = <<>>
    /\ fg = [p \in 1..NumProcsW |-> IdleProc]
    /\ wk = [w \in 1..NumWorkersW |-> IdleWorker]
    /\ pidfile = NULL
    /\ ew = EwIdle

NextW ==
    \/ \E p \in Procs : \E c \in Commands : ReadW(p, c)
    \/ \E p \in Procs : Commit(p)
    \/ \E p \in Procs : RecoveryCheckW(p)
    \/ \E p \in Procs : Recover(p)
    \/ \E p \in Procs : Crash(p)
    \/ \E p \in Procs : Report(p)
    \/ \E w \in Workers : WBoot(w)
    \/ \E w \in Workers : WFetch(w)
    \/ \E w \in Workers : WClock(w)
    \/ \E w \in Workers : WHeartbeat(w)
    \/ \E w \in Workers : WFinish(w)
    \/ \E w \in Workers : WNotify(w)
    \/ \E w \in Workers : WExit(w)
    \/ \E w \in Workers : WCrash(w)
    \/ Tick

SpecW == InitW /\ [][NextW]_vars

\* ------------------------------------------------------ fair scheduling
\* The processes when none of them is killed and every live one keeps being
\* scheduled: a worker that can take its next step eventually takes it (its
\* sleep returns, its dialog times out), a command that has its outcome prints
\* it, and time passes.
WorkerStep(w) ==
    \/ WBoot(w)
    \/ WFetch(w)
    \/ WClock(w)
    \/ WHeartbeat(w)
    \/ WFinish(w)
    \/ WNotify(w)
    \/ WExit(w)

NextLive ==
    \/ \E p \in Procs : \E c \in Commands : Read(p, c)
    \/ \E p \in Procs : Commit(p)
    \/ \E p \in Procs : RecoveryCheck(p)
    \/ \E p \in Procs : Recover(p)
    \/ \E p \in Procs : Report(p)
    \/ \E w \in Workers : WBoot(w)
    \/ \E w \in Workers : WFetch(w)
    \/ \E w \in Workers : WClock(w)
    \/ \E w \in Workers : WHeartbeat(w)
    \/ \E w \in Workers : WFinish(w)
    \/ \E w \in Workers : WNotify(w)
    \/ \E w \in Workers : WExit(w)
    \/ Tick

\* A worker's step and the clock's are always possible in the program; here they
\* wait while a command prints its outcome, so their fairness is stated as
\* strong fairness: a step possible again and again is eventually taken.
Fairness ==
    /\ \A w \in 1..NumWorkers : SF_vars(WorkerStep(w))
    /\ \A p \in 1..NumProcs : WF_vars(Report(p))
    /\ SF_vars(Tick)

SpecLive == Init /\ [][NextLive]_vars /\ Fairness

\* The same program where, besides, a command that has made its liveness check
\* is not starved: its process goes on to the recovery call.
FairnessHeal ==
    /\ Fairness
    /\ \A p \in 1..NumProcs : SF_vars(Recover(p))

SpecHeal == Init /\ [][NextLive]_vars /\ FairnessHeal

\* ------------------------------------------- effective_worked in isolation
\* Rows of every status with every combination of the columns effective_worked
\* reads, and every clock reading (also one before run_started_at).
EwTimes == Epoch..(Epoch + MaxTicks)

EwRows ==
    {[NoRow EXCEPT !.id = 1, !.status = st, !.duration_sec = d, !.worked_sec = wsec,
                   !.run_started_at = rs, !.started_at = Epoch] :
        st \in IntervalStatus, d \in Durations, wsec \in 0..MaxDuration,
        rs \in {NULL} \cup EwTimes}

InitEW ==
    /\ clock = Epoch
    /\ intervals = <<>>
    /\ events = <<>>
    /\ fg = [p \in 1..NumProcs |-> IdleProc]
    /\ wk = [w \in 1..NumWorkers |-> IdleWorker]
    /\ pidfile = NULL
    /\ ew \in {[pc |-> "call", row |-> r, now |-> n, out |-> 0] :
                 r \in EwRows, n \in EwTimes}

\* out = row.effective_worked(now)
EwCall ==
    /\ ew.pc = "call"
    /\ ew' = [ew EXCEPT !.pc = "ret", !.out = effective_worked(ew.row, ew.now)]
    /\ UNCHANGED <<clock, intervals, events, fg, wk, pidfile>>

NextEW == EwCall

SpecEW == InitEW /\ [][NextEW]_vars

\* ----------------------------------- timer_worker.py: is_alive in isolation
\* The pid file's text and the output of ps are sequences of one-character
\* strings. What the operating system answers is an input of the call.
Whitespace == {" "}
Digits == {"0", "1", "2", "3", "4", "5", "6", "7", "8", "9"}
PidChars == {"1", "7", " ", "x"}

DigitValue(c) ==
    CASE c = "0" -> 0 [] c = "1" -> 1 [] c = "2" -> 2 [] c = "3" -> 3 [] c = "4" -> 4
      [] c = "5" -> 5 [] c = "6" -> 6 [] c = "7" -> 7 [] c = "8" -> 8 [] c = "9" -> 9

RECURSIVE lstrip(_)
lstrip(s) == IF s # <<>> /\ Head(s) \in Whitespace THEN lstrip(Tail(s)) ELSE s

RECURSIVE rstrip(_)
rstrip(s) ==
    IF s # <<>> /\ s[Len(s)] \in Whitespace THEN rstrip(SubSeq(s, 1, Len(s) - 1)) ELSE s

\* str.strip()
strip(s) == rstrip(lstrip(s))

RECURSIVE decimal(_)
decimal(s) == IF s = <<>> THEN 0 ELSE 10 * decimal(SubSeq(s, 1, Len(s) - 1)) + DigitValue(s[Len(s)])

\* int(text): the number, or NULL where int raises ValueError.
int(s) ==
    IF s # <<>> /\ \A k \in DOMAIN s : s[k] \in Digits THEN decimal(s) ELSE NULL

LowerChar(c) ==
    CASE c = "P" -> "p" [] c = "Y" -> "y" [] c = "T" -> "t" [] c = "H" -> "h"
      [] c = "O" -> "o" [] c = "N" -> "n" [] OTHER -> c

\* str.lower()
lower(s) == [k \in DOMAIN s |-> LowerChar(s[k])]

\* sub in s
contains(s, sub) ==
    \E k \in 0..(Len(s) - Len(sub)) : SubSeq(s, k + 1, k + Len(sub)) = sub

python == <<"p", "y", "t", "h", "o", "n">>

\* The pid file: absent, present but unreadable, or present with a text.
PidTexts == UNION {[1..n -> PidChars] : n \in 0..MaxPidLen}

PidFiles ==
    {[exists |-> FALSE, readable |-> FALSE, text |-> <<>>],
     [exists |-> TRUE, readable |-> FALSE, text |-> <<>>]}
    \cup {[exists |-> TRUE, readable |-> TRUE, text |-> t] : t \in PidTexts}

\* os.kill(pid, 0): returns, or raises one of the two errors is_alive catches.
KillOutcomes == {"ok", "ProcessLookupError", "PermissionError"}

\* ps -p pid -o comm=: cannot be run (OSError), or prints a command name or nothing.
PsOutcomes ==
    {[error |-> TRUE, stdout |-> <<>>]}
    \cup {[error |-> FALSE, stdout |-> o] :
            o \in {<<>>,
                   <<"b", "a", "s", "h", "\n">>,
                   <<"p", "y", "t", "h", "o", "n", "3", "\n">>,
                   <<"P", "y", "t", "h", "o", "n", "\n">>}}

\* A variant of is_alive_of that takes a process the OS does not let it signal
\* for the worker, without looking at its name (C24 fails of it).
is_alive_of_denied(file, kill, ps) ==
    IF ~file.exists THEN FALSE
    ELSE IF ~file.readable \/ int(strip(file.text)) = NULL THEN FALSE
    ELSE IF kill = "ProcessLookupError" THEN FALSE
    ELSE IF kill = "PermissionError" THEN TRUE
    ELSE IF ps.error THEN FALSE
    ELSE contains(lower(ps.stdout), python)

\* is_alive(pid_path), given what the file system and the OS answer.
is_alive_of(file, kill, ps) ==
    IF ~file.exists THEN FALSE
    ELSE IF ~file.readable \/ int(strip(file.text)) = NULL THEN FALSE
    ELSE IF kill = "ProcessLookupError" THEN FALSE
    ELSE IF ps.error THEN FALSE
    ELSE contains(lower(ps.stdout), python)

InitIA ==
    /\ clock = Epoch
    /\ intervals = <<>>
    /\ events = <<>>
    /\ fg = [p \in 1..NumProcs |-> IdleProc]
    /\ wk = [w \in 1..NumWorkers |-> IdleWorker]
    /\ pidfile = NULL
    /\ ew \in {[pc |-> "call", file |-> f, kill |-> k, ps |-> c, out |-> FALSE] :
                 f \in PidFiles, k \in KillOutcomes, c \in PsOutcomes}

\* out = is_alive(pid_path)
IaCall ==
    /\ ew.pc = "call"
    /\ ew' = [ew EXCEPT !.pc = "ret", !.out = is_alive_of(ew.file, ew.kill, ew.ps)]
    /\ UNCHANGED <<clock, intervals, events, fg, wk, pidfile>>

NextIA == IaCall

SpecIA == InitIA /\ [][NextIA]_vars

\* ================================================================= claims
Active(ivs) == {i \in DOMAIN ivs : ivs[i].status \in ACTIVE_STATUSES}

\* A step in which process p makes the store call of command cmd.
Commits(p, cmd) ==
    /\ fg[p].pc = "commit"
    /\ fg[p].cmd = cmd
    /\ fg'[p].pc = "report"
    /\ fg'[p].result # "KILLED"

\* A step in which process p starts command cmd and reads the latest interval.
Reads(p, cmd) == fg[p].pc = "done" /\ fg'[p].pc # "done" /\ fg'[p].cmd = cmd

\* C1: in every reachable state at most one interval has a status in
\* {running, paused, finished, interrupted}.
C1_AtMostOneActive == Cardinality(Active(intervals)) <= 1

\* Two intervals are stored, the older one terminated, the newer one active.
C1_Witness ==
    /\ Len(intervals) = 2
    /\ intervals[1].status \notin ACTIVE_STATUSES
    /\ intervals[2].status \in ACTIVE_STATUSES

\* C2: a step of a start command taken while an interval is active writes nothing
\* (no row, no event, the active row unchanged), and if it ends the command the
\* outcome is ACTIVE_INTERVAL_EXISTS; the insert succeeds when no interval is
\* active, so of two racing creates the first to commit wins and the other,
\* committing while that interval is active, is rejected.
C2_CreateWhileActiveFails ==
    [][\A p \in Procs :
        /\ (Reads(p, "start") \/ Commits(p, "start")) /\ Active(intervals) # {}
            => /\ intervals' = intervals
               /\ events' = events
               /\ fg'[p].pc = "report" => fg'[p].result = "ACTIVE_INTERVAL_EXISTS"
        /\ Commits(p, "start") /\ Active(intervals) = {}
            => /\ fg'[p].result \in {"OK", "SPAWN_FAILED"}
               /\ Len(intervals') = Len(intervals) + 1
               /\ Len(events') = Len(events) + 1]_vars

\* A create lost the race: its read saw no active interval, its insert was rejected.
C2_Witness ==
    \E p \in Procs :
        /\ fg[p].pc = "report"
        /\ fg[p].cmd = "start"
        /\ fg[p].result = "ACTIVE_INTERVAL_EXISTS"
        /\ fg[p].message = "Another interval was started concurrently."
        /\ Len(intervals) = 1

\* The statuses in which an operation's conditional mutation applies.
Pre(op) ==
    CASE op = "pause"   -> {"running"}
      [] op = "resume"  -> {"paused", "interrupted"}
      [] op = "cancel"  -> {"running", "paused", "interrupted"}
      [] op = "finish"  -> {"finished"}
      [] op = "recover" -> {"running"}

Mutators == {"pause", "resume", "cancel", "finish", "recover"}

StatusOf(ivs, interval_id) ==
    IF interval_id \in DOMAIN ivs THEN ivs[interval_id].status ELSE "none"

\* A step in which process p makes its store call after exactly one transition of
\* the interval it read has been committed by somebody else: p lost a race.
CommitsSecond(p, cmd) ==
    /\ Commits(p, cmd)
    /\ EventCount(events, fg[p].row.id) = fg[p].nev + 1

\* A step in which worker w calls finish_interval.
WorkerFinishes(w) == wk[w].pc = "finish" /\ wk'[w].pc \in {"notify", "exit"}

\* A step in which worker w returns from send_notification (and resolves, or not).
WorkerNotified(w) == wk[w].pc = "notify" /\ wk'[w].pc = "exit"

\* C3 as claimed: of two conditional mutations read from the same starting status,
\* the one that commits second always fails.
C3_SecondAlwaysFails ==
    [][\A p \in Procs : \A cmd \in Mutators :
        CommitsSecond(p, cmd) => fg'[p].result = "CONCURRENT_MODIFICATION"]_vars

\* C3 as amended: the one that commits second succeeds exactly if the status the
\* winner left still satisfies its precondition, which happens only to a cancel
\* (after a pause, a recover or a resume); otherwise it returns failure and the row
\* and the log stay as the winner wrote them.  The same holds for the worker's finish.
C3_SecondFailsIffPreconditionGone ==
    [][/\ \A p \in Procs : \A cmd \in Mutators :
            CommitsSecond(p, cmd) =>
                IF StatusOf(intervals, fg[p].row.id) \in Pre(cmd)
                THEN /\ fg'[p].result \in {"OK", "SPAWN_FAILED"}
                     /\ Len(events') = Len(events) + 1
                     /\ cmd = "cancel"
                     /\ StatusOf(intervals', fg[p].row.id) = "cancelled"
                ELSE /\ fg'[p].result = "CONCURRENT_MODIFICATION"
                     /\ intervals' = intervals
                     /\ events' = events
       /\ \A w \in Workers :
            WorkerFinishes(w) /\ StatusOf(intervals, wk[w].id) # "running" =>
                /\ wk'[w].pc = "exit"
                /\ intervals' = intervals
                /\ events' = events]_vars

\* A pause lost the race against a cancel: the interval is cancelled, the log
\* holds the started and the cancelled event, and pause reports the conflict.
C3_Witness ==
    \E p \in Procs :
        /\ fg[p].pc = "report"
        /\ fg[p].cmd = "pause"
        /\ fg[p].result = "CONCURRENT_MODIFICATION"
        /\ Len(events) = 2
        /\ intervals[1].status = "cancelled"

\* The outcome of a store call that failed: nothing changed.
Failed(m) == ~m.ok /\ m.intervals = intervals /\ m.events = events

\* C4: a finish, resolve, pause, resume, cancel or recover called on an absent id,
\* or on a row whose status does not satisfy its precondition, returns failure and
\* leaves intervals and events exactly as they were.  Stated of every call the
\* processes make, and of every call that could be made in the state they are in.
C4_FailedMutationChangesNothing ==
    [][/\ \A p \in Procs : \A cmd \in Mutators :
            Commits(p, cmd) /\ StatusOf(intervals, fg[p].row.id) \notin Pre(cmd) =>
                /\ fg'[p].result = "CONCURRENT_MODIFICATION"
                /\ intervals' = intervals
                /\ events' = events
       /\ \A w \in Workers :
            \/ WorkerFinishes(w) /\ StatusOf(intervals, wk[w].id) # "running"
            \/ WorkerNotified(w) /\ StatusOf(intervals, wk[w].id) # "finished"
            => intervals' = intervals /\ events' = events
       /\ \A id \in 1..(Len(intervals) + 1) : \A t \in {clock} : \A n \in 0..MaxDuration :
            /\ StatusOf(intervals, id) # "running" =>
                /\ Failed(finish_interval(intervals, events, id, n, t))
                /\ Failed(pause_interval(intervals, events, id, n, t))
                /\ Failed(recover_running_interval(intervals, events, id, t))
            /\ StatusOf(intervals, id) # "finished" =>
                /\ Failed(resolve_interval(intervals, events, id, "completed", t))
                /\ Failed(resolve_interval(intervals, events, id, "abandoned", t))
            /\ StatusOf(intervals, id) \notin {"paused", "interrupted"} =>
                Failed(resume_interval(intervals, events, id, t))
            /\ StatusOf(intervals, id) \notin {"running", "paused", "interrupted"} =>
                Failed(cancel_interval(intervals, events, id, n, t))]_vars

\* A resume found the interval already running again: it reports the conflict.
C4_Witness ==
    \E p \in Procs :
        /\ fg[p].pc = "report"
        /\ fg[p].cmd = "resume"
        /\ fg[p].result = "CONCURRENT_MODIFICATION"
        /\ intervals[1].status = "running"

\* The type of the most recent event the log holds for an interval ("none" if none).
LastEventType(evs, interval_id) ==
    LET idx == {i \in DOMAIN evs : evs[i].interval_id = interval_id} IN
    IF idx = {} THEN "none"
    ELSE evs[CHOOSE i \in idx : \A j \in idx : j <= i].event_type

\* The events of one interval, in log order.
EventsOf(evs, interval_id) ==
    SelectSeq(evs, LAMBDA e : e.interval_id = interval_id)

\* C5: in every state any process can see, each interval's most recent event
\* matches its stored status (started or resumed for running, the equally named
\* event otherwise), and every event belongs to a stored interval: no status
\* change is visible without its event, no event without its status change.
C5_LastEventMatchesStatus ==
    /\ \A i \in DOMAIN intervals :
          IF intervals[i].status = "running"
          THEN LastEventType(events, i) \in {"started", "resumed"}
          ELSE LastEventType(events, i) = intervals[i].status
    /\ \A k \in DOMAIN events : events[k].interval_id \in DOMAIN intervals

\* A resume was killed inside its store call: the interrupted interval it was to
\* resume is still interrupted and the log ends with the interrupted event.
C5_Witness ==
    \E p \in Procs :
        /\ fg[p].pc = "report"
        /\ fg[p].cmd = "resume"
        /\ fg[p].result = "KILLED"
        /\ Len(events) = 2
        /\ events[2].event_type = "interrupted"
        /\ intervals[1].status = "interrupted"

\* C6: the log is append-only and grows by exactly one event per successful
\* transition: a step leaves it unchanged or appends one event to it, it appends
\* one exactly when an interval is created or changes status, and a heartbeat
\* write appends nothing.
C6_LogAppendOnly ==
    [][/\ \/ events' = events
          \/ /\ Len(events') = Len(events) + 1
             /\ SubSeq(events', 1, Len(events)) = events
       /\ events' # events <=>
            \/ Len(intervals') = Len(intervals) + 1
            \/ \E i \in DOMAIN intervals : intervals'[i].status # intervals[i].status
       /\ (\E w \in Workers : wk[w].pc = "heartbeat" /\ wk'[w].pc \in {"finish", "fetch"})
            => events' = events]_vars

\* A heartbeat has been written and the log holds only the started event.
C6_Witness ==
    /\ Len(events) = 1
    /\ Len(intervals) = 1
    /\ intervals[1].heartbeat_at # NULL

\* The edges of the interval life cycle.
Edges ==
    {<<"running", "paused">>, <<"running", "finished">>, <<"running", "cancelled">>,
     <<"running", "interrupted">>, <<"paused", "running">>, <<"paused", "cancelled">>,
     <<"interrupted", "running">>, <<"interrupted", "cancelled">>,
     <<"finished", "completed">>, <<"finished", "abandoned">>}

\* C7: every status change of an interval follows one of the ten edges, and a new
\* interval starts as running.
C7_OnlyLifecycleEdges ==
    [][/\ \A i \in DOMAIN intervals :
            intervals'[i].status # intervals[i].status =>
                <<intervals[i].status, intervals'[i].status>> \in Edges
       /\ \A i \in DOMAIN intervals' \ DOMAIN intervals :
            intervals'[i].status = "running"]_vars

\* An interrupted interval was cancelled.
C7_Witness ==
    /\ Len(events) = 3
    /\ events[2].event_type = "interrupted"
    /\ events[3].event_type = "cancelled"
    /\ intervals[1].status = "cancelled"

\* C8: completed, abandoned and cancelled are absorbing: a row with one of these
\* statuses is never changed again in any column, by any process, and the log
\* gets no further event for it.
C8_TerminalAbsorbing ==
    [][\A i \in DOMAIN intervals :
        intervals[i].status \in {"completed", "abandoned", "cancelled"} =>
            /\ intervals'[i] = intervals[i]
            /\ EventsOf(events', i) = EventsOf(events, i)]_vars

\* The interval was resolved by a finish command while the worker that finished
\* it, still bound to it, is about to resolve it too.
C8_Witness ==
    \E w \in Workers :
        /\ wk[w].pc = "notify"
        /\ wk[w].id \in DOMAIN intervals
        /\ intervals[wk[w].id].status \in {"completed", "abandoned"}

\* C9: the stored worked_sec of an interval never decreases in any step of any
\* process, also when the write is computed from a row read before an
\* intervening pause and resume.
C9_WorkedNeverDecreases ==
    [][\A i \in DOMAIN intervals :
        intervals'[i].worked_sec >= intervals[i].worked_sec]_vars

\* C10: effective_worked(now) is min(worked_sec + (now - run_started_at),
\* duration_sec) for a running row with run_started_at set, and worked_sec for
\* every row that is not running.
C10_EffectiveWorked ==
    ew.pc = "ret" =>
        LET row == ew.row
            elapsed == row.worked_sec + (ew.now - row.run_started_at) IN
        /\ row.status = "running" /\ row.run_started_at # NULL =>
              /\ ew.out <= elapsed
              /\ ew.out <= row.duration_sec
              /\ ew.out \in {elapsed, row.duration_sec}
        /\ row.status # "running" => ew.out = row.worked_sec

\* The clamp applied: a running row whose elapsed time exceeds its duration
\* returned duration_sec.
C10_Witness ==
    /\ ew.pc = "ret"
    /\ ew.row.status = "running"
    /\ ew.row.run_started_at # NULL
    /\ ew.row.worked_sec + (ew.now - ew.row.run_started_at) > ew.row.duration_sec
    /\ ew.out = ew.row.duration_sec

\* The event types of a list of events.
TypesOf(evs) == [k \in DOMAIN evs |-> evs[k].event_type]

\* C11: time spent paused is not counted as work.  An interval created with
\* duration_sec = D at T, paused at T+a and resumed at T+a+g is not finished by
\* the worker before T+D+g, and when it is finished its stored worked_sec is D.
C11_PausedTimeNotCounted ==
    \A i \in DOMAIN intervals :
        LET ev == EventsOf(events, i) IN
        Len(ev) >= 4 /\ SubSeq(TypesOf(ev), 1, 4) = <<"started", "paused", "resumed", "finished">> =>
            /\ ev[4].event_at >= ev[1].event_at + intervals[i].duration_sec
                                   + (ev[3].event_at - ev[2].event_at)
            /\ intervals[i].worked_sec = intervals[i].duration_sec

\* The credit C12 states for a running row r: worked_sec plus the time from
\* run_started_at to the last heartbeat, at most duration_sec; worked_sec itself
\* when no heartbeat was written.
IsRecoveryCredit(r, credit) ==
    IF r.heartbeat_at = NULL THEN credit = r.worked_sec
    ELSE LET upto == r.worked_sec + (r.heartbeat_at - r.run_started_at) IN
         /\ credit <= upto
         /\ credit <= r.duration_sec
         /\ credit \in {upto, r.duration_sec}

\* C12: recover on a running interval sets status = interrupted and worked_sec =
\* min(worked_sec + (heartbeat_at - run_started_at), duration_sec) when a heartbeat
\* is stored, and leaves worked_sec unchanged when none is; the time at which
\* recovery is invoked never affects the credit.  Stated of every recovery that
\* takes place and of every recovery that could be called in a reachable state.
C12_RecoveryCreditsUpToHeartbeat ==
    [][/\ \A p \in Procs :
            Commits(p, "recover") /\ StatusOf(intervals, fg[p].row.id) = "running" =>
                /\ intervals'[fg[p].row.id].status = "interrupted"
                /\ IsRecoveryCredit(intervals[fg[p].row.id],
                                    intervals'[fg[p].row.id].worked_sec)
       /\ \A i \in DOMAIN intervals : \A t \in Epoch..(Epoch + MaxTicks) :
            intervals[i].status = "running" =>
                LET m == recover_running_interval(intervals, events, i, t) IN
                /\ m.ok
                /\ m.intervals[i].status = "interrupted"
                /\ IsRecoveryCredit(intervals[i], m.intervals[i].worked_sec)
                /\ m.intervals =
                     recover_running_interval(intervals, events, i, clock).intervals]_vars

\* A worker wrote its heartbeat one second into a two-second interval and died;
\* the recovery invoked a second later credited exactly that one second.
C12_Witness ==
    /\ Len(events) = 2
    /\ events[2].event_type = "interrupted"
    /\ events[2].event_at = events[1].event_at + 2
    /\ intervals[1].status = "interrupted"
    /\ intervals[1].duration_sec = 2
    /\ intervals[1].worked_sec = 1

\* The events of an interval that record a resolution.
Resolutions(evs, interval_id) ==
    {k \in DOMAIN evs : /\ evs[k].interval_id = interval_id
                        /\ evs[k].event_type \in {"completed", "abandoned"}}

\* C13: resolve on a finished interval succeeds exactly once.  A resolve made on
\* a finished interval succeeds; every resolve made, or that could be made, on an
\* interval already resolved fails and changes neither the rows nor the log,
\* whichever resolution it carries and whoever makes it; so each interval has at
\* most one resolution event, also when the worker and a finish command race.
C13_ResolveOnce ==
    [][/\ \A p \in Procs :
            Commits(p, "finish") =>
                IF StatusOf(intervals, fg[p].row.id) = "finished"
                THEN /\ fg'[p].result = "OK"
                     /\ StatusOf(intervals', fg[p].row.id) \in {"completed", "abandoned"}
                     /\ Len(events') = Len(events) + 1
                ELSE /\ fg'[p].result = "CONCURRENT_MODIFICATION"
                     /\ intervals' = intervals
                     /\ events' = events
       /\ \A w \in Workers :
            WorkerNotified(w) /\ StatusOf(intervals, wk[w].id) \in {"completed", "abandoned"} =>
                intervals' = intervals /\ events' = events
       /\ \A i \in DOMAIN intervals : \A r \in {"completed", "abandoned"} :
            intervals[i].status \in {"completed", "abandoned"} =>
                Failed(resolve_interval(intervals, events, i, r, clock))
       /\ \A i \in DOMAIN intervals' :
            Cardinality(Resolutions(events', i)) <= 1]_vars

\* A finish command lost the race against the worker's resolve: the interval is
\* resolved once and the command reports the conflict.
C13_Witness ==
    \E p \in Procs :
        /\ fg[p].pc = "report"
        /\ fg[p].cmd = "finish"
        /\ fg[p].result = "CONCURRENT_MODIFICATION"
        /\ intervals[1].status \in {"completed", "abandoned"}
        /\ Cardinality(Resolutions(events, 1)) = 1

\* The worker processes that are alive.
AliveWorkers == {w \in Workers : wk[w].pc # "free"}

\* C14: at any time at most one timer worker process is alive.
C14_AtMostOneWorker == Cardinality(AliveWorkers) <= 1

\* The points of _run inside its polling loop.
Looping == {"fetch", "clock", "heartbeat", "finish"}

\* C15: an interval becomes interrupted only in a recovery, applied to it while
\* it is running and no timer worker bound to it is alive: in no step is an
\* interval marked interrupted while a worker bound to it is alive and looping.
C15_InterruptedOnlyWithoutWorker ==
    [][\A i \in DOMAIN intervals :
        intervals[i].status # "interrupted" /\ intervals'[i].status = "interrupted" =>
            /\ \E p \in Procs : Commits(p, "recover") /\ fg[p].row.id = i
            /\ intervals[i].status = "running"
            /\ ~\E w \in Workers : wk[w].id = i /\ wk[w].pc \in Looping]_vars

\* A step in which worker w reads its interval at the top of the loop.
WorkerFetches(w) == wk[w].pc = "fetch" /\ wk'[w] # wk[w] /\ wk'[w].pc # "free"

\* C16: a loop iteration that reads its interval as not running (or absent) writes
\* nothing to the store and leaves the loop; from there the worker only ends,
\* without a heartbeat, a finish, a notification or a resolve; and this is so in
\* every iteration of every worker bound to that interval.
C16_NotRunningIterationExits ==
    [][\A w \in Workers :
        /\ WorkerFetches(w) /\ StatusOf(intervals, wk[w].id) # "running" =>
              /\ wk'[w].pc = "exit"
              /\ intervals' = intervals
              /\ events' = events
        /\ wk[w].pc = "exit" /\ wk'[w] # wk[w] =>
              /\ wk'[w] = IdleWorker
              /\ intervals' = intervals
              /\ events' = events]_vars

\* A worker read its two-second interval as paused before a second had passed
\* and left the loop.
C16_Witness ==
    \E w \in Workers :
        /\ wk[w].pc = "exit"
        /\ clock = Epoch
        /\ wk[w].id = 1
        /\ intervals[1].status = "paused"
        /\ intervals[1].duration_sec = 2

\* C17: once a cancel of a running interval has committed the interval stays
\* cancelled and its row stays as the cancel wrote it whatever the worker does
\* next (its pending heartbeat and its pending finish change nothing), and a
\* fairly scheduled worker bound to it eventually leaves the loop and ends.
C17_CancelTakesEffect ==
    /\ [][\A i \in DOMAIN intervals :
            intervals[i].status = "cancelled" => intervals'[i] = intervals[i]]_vars
    /\ [][\A w \in Workers :
            /\ wk[w].pc # "free"
            /\ wk'[w] # wk[w]
            /\ StatusOf(intervals, wk[w].id) = "cancelled"
            => /\ intervals' = intervals
               /\ events' = events
               /\ wk'[w].pc \in {"fetch", "clock", "heartbeat", "finish", "exit", "free"}]_vars
    /\ \A w \in 1..NumWorkers :
            (wk[w].pc # "free" /\ StatusOf(intervals, wk[w].id) = "cancelled")
                ~> (wk[w].pc = "free")

\* A running interval was cancelled while its worker, past its check of the
\* status, is about to call finish_interval.
C17_Witness ==
    \E w \in Workers :
        /\ wk[w].pc = "finish"
        /\ wk[w].id = 1
        /\ intervals[1].status = "cancelled"
        /\ Len(events) = 2

\* C18: when the worker's finish_interval fails because the interval is no longer
\* running, the worker leaves the loop, the rows and the log stay exactly as the
\* other process wrote them, and all the worker does from there is end: no
\* notification, no resolve, no other write.
C18_LostFinishExits ==
    [][\A w \in Workers :
        /\ wk[w].pc = "finish" /\ wk'[w] # wk[w] /\ wk'[w].pc # "free"
           /\ StatusOf(intervals, wk[w].id) # "running" =>
              /\ wk'[w] = At(w, "exit")
              /\ intervals' = intervals
              /\ events' = events
              /\ pidfile' = pidfile
        /\ wk[w].pc = "exit" /\ wk'[w] # wk[w] =>
              /\ wk'[w].pc = "free"
              /\ intervals' = intervals
              /\ events' = events]_vars

\* The worker found its time up and is about to call finish_interval on an
\* interval that a pause has taken first.
C18_Witness ==
    \E w \in Workers :
        /\ wk[w].pc = "finish"
        /\ wk[w].id = 1
        /\ intervals[1].status = "paused"
        /\ Len(events) = 2

\* A foreground resolve of interval i with resolution r would succeed now.
Resolvable(ivs, evs, i, r) ==
    LET m == resolve_interval(ivs, evs, i, r, clock) IN
    /\ m.ok
    /\ m.intervals[i].status = r
    /\ LastEventType(m.events, i) = r

\* C19: when the notification returns no answer the worker leaves the loop with
\* the interval still finished, its finished event the last one, and a foreground
\* resolve with completed or with abandoned succeeds on it from then on: the
\* worker's step after the notification either stores the answer or stores
\* nothing, and a finished interval is resolvable by the finish command.
C19_NoAnswerLeavesFinished ==
    [][/\ \A w \in Workers :
            WorkerNotified(w) /\ StatusOf(intervals, wk[w].id) = "finished" =>
                \/ /\ intervals'[wk[w].id].status \in {"completed", "abandoned"}
                   /\ LastEventType(events', wk[w].id) = intervals'[wk[w].id].status
                \/ /\ intervals' = intervals
                   /\ events' = events
                   /\ LastEventType(events', wk[w].id) = "finished"
                   /\ \A r \in {"completed", "abandoned"} :
                         Resolvable(intervals', events', wk[w].id, r)
       /\ \A p \in Procs :
            Commits(p, "finish") /\ StatusOf(intervals, fg[p].row.id) = "finished" =>
                /\ fg'[p].result = "OK"
                /\ intervals'[fg[p].row.id].status \in {"completed", "abandoned"}
                /\ LastEventType(events', fg[p].row.id) = intervals'[fg[p].row.id].status
       /\ \A i \in DOMAIN intervals : \A r \in {"completed", "abandoned"} :
            intervals[i].status = "finished" /\ intervals'[i].status = "finished" =>
                Resolvable(intervals', events', i, r)]_vars

\* The worker finished the interval, got no answer, and ended normally (its pid
\* file is removed); a finish command then resolved the interval as abandoned.
C19_Witness ==
    \E p \in Procs :
        /\ fg[p].pc = "report"
        /\ fg[p].cmd = "finish"
        /\ fg[p].result = "OK"
        /\ pidfile = NULL
        /\ \A w \in Workers : wk[w].pc = "free"
        /\ Len(intervals) = 1
        /\ intervals[1].status = "abandoned"
        /\ TypesOf(events) = <<"started", "finished", "abandoned">>

\* A live worker bound to interval i is in its loop, or about to enter it.
WorkerLoops(i) ==
    \E w \in Workers : wk[w].id = i /\ wk[w].pc \in Looping \cup {"boot"}

\* Interval i is running and the clock can still reach the moment its time is up.
RunningInTime(i) ==
    /\ StatusOf(intervals, i) = "running"
    /\ intervals[i].run_started_at + (intervals[i].duration_sec - intervals[i].worked_sec)
         <= Epoch + MaxTicks

\* Interval i has reached finished (and maybe a resolution) and no worker bound to
\* it is alive any more.
FinishedAndWorkerGone(i) ==
    /\ StatusOf(intervals, i) \in {"finished", "completed", "abandoned"}
    /\ ~\E w \in Workers : wk[w].id = i /\ wk[w].pc # "free"

\* A foreground command or a recovery has taken interval i out of running.
Touched(i) == StatusOf(intervals, i) \in {"paused", "cancelled", "interrupted"}

\* C20: if an interval is running, a worker bound to it is alive and fairly
\* scheduled and time advances, then, unless a foreground command or a recovery
\* touches the interval, the interval eventually is finished and the worker
\* eventually has terminated.
C20_RunningEventuallyFinished ==
    \A i \in 1..MaxIntervals :
        (RunningInTime(i) /\ WorkerLoops(i)) ~> (FinishedAndWorkerGone(i) \/ Touched(i))

\* The worker finished the interval, got no answer and ended: the interval is
\* finished and no worker is alive.
C20_Witness ==
    /\ Len(intervals) = 1
    /\ intervals[1].status = "finished"
    /\ TypesOf(events) = <<"started", "finished">>
    /\ \A w \in Workers : wk[w].pc = "free"
    /\ pidfile = NULL

\* The finished events the log holds for an interval.
Finishes(evs, interval_id) ==
    {k \in DOMAIN evs : evs[k].interval_id = interval_id /\ evs[k].event_type = "finished"}

\* C21: send_notification is called at most once per interval, and only by the
\* worker whose finish_interval succeeded, right after the running -> finished
\* transition.  A worker comes to the notification only in the step in which its
\* own finish_interval takes its interval from running to finished and appends
\* the finished event; an interval has at most one finished event; so at most one
\* worker ever notifies for it, also when several workers are bound to it.
C21_NotifiedOncePerInterval ==
    [][/\ \A w \in Workers :
            wk'[w].pc = "notify" /\ wk[w].pc # "notify" =>
                /\ wk[w].pc = "finish"
                /\ wk'[w].id = wk[w].id
                /\ StatusOf(intervals, wk[w].id) = "running"
                /\ StatusOf(intervals', wk[w].id) = "finished"
                /\ Finishes(events', wk[w].id) = {Len(events')}
                /\ Len(events') = Len(events) + 1
       /\ \A i \in DOMAIN intervals' :
            /\ Cardinality(Finishes(events', i)) <= 1
            /\ Cardinality({w \in Workers : wk'[w].pc = "notify" /\ wk'[w].id = i}) <= 1]_vars

\* Two workers are bound to the same interval: one finished it and is showing the
\* dialog, the other is about to call finish_interval too.
C21_Witness ==
    \E w1, w2 \in Workers :
        /\ w1 # w2
        /\ wk[w1].pc = "notify"
        /\ wk[w2].pc = "finish"
        /\ wk[w1].id = 1
        /\ wk[w2].id = 1
        /\ intervals[1].status = "finished"

\* C22: when the spawn of the worker fails after start or resume has committed,
\* the transition stays: the interval is running with run_started_at = now, its
\* worked_sec as committed (0 for start, the paused value for resume), its
\* started or resumed event is the last of the log, and the command writes
\* nothing more before it ends.
C22_SpawnFailureKeepsTransition ==
    [][\A p \in Procs :
        /\ \A cmd \in {"start", "resume"} :
             Commits(p, cmd) /\ fg'[p].result = "SPAWN_FAILED" =>
                LET i == IF cmd = "start" THEN Len(intervals) + 1 ELSE fg[p].row.id
                    e == events'[Len(events')] IN
                /\ wk' = wk
                /\ Len(events') = Len(events) + 1
                /\ e.interval_id = i
                /\ e.event_type = IF cmd = "start" THEN "started" ELSE "resumed"
                /\ StatusOf(intervals', i) = "running"
                /\ intervals'[i].run_started_at = e.event_at
                /\ e.event_at \in fg[p].read_at..clock
                /\ intervals'[i].worked_sec =
                      IF cmd = "start" THEN 0 ELSE intervals[i].worked_sec
        /\ fg[p].pc = "report" /\ fg[p].result = "SPAWN_FAILED" =>
                /\ intervals' = intervals
                /\ events' = events
                /\ wk' = wk]_vars

\* A resume committed and its spawn failed: the interval is running, its last
\* event is resumed, and no worker is alive.
C22_Witness ==
    \E p \in Procs :
        /\ fg[p].pc = "report"
        /\ fg[p].cmd = "resume"
        /\ fg[p].result = "SPAWN_FAILED"
        /\ intervals[1].status = "running"
        /\ LastEventType(events, 1) = "resumed"
        /\ \A w \in Workers : wk[w].pc = "free"

\* A command's process makes the recovery call.
Recovers(p) ==
    /\ fg[p].pc = "commit"
    /\ fg[p].cmd = "recover"
    /\ fg'[p].pc = "report"
    /\ fg'[p].result # "KILLED"

HasDecimalId(file) ==
    /\ file.exists
    /\ file.readable
    /\ \E a, b \in DOMAIN file.text :
          /\ a <= b
          /\ \A k \in DOMAIN file.text :
                IF a <= k /\ k <= b THEN file.text[k] \in Digits
                                    ELSE file.text[k] \in Whitespace

\* The OS reports that the process exists: the signal is delivered, or refused
\* for want of permission.
OsReportsProcess(kill) == kill \in {"ok", "PermissionError"}

\* ps ran and the name it printed has "python" in it, in whatever case.
IdentityPasses(ps) ==
    /\ ~ps.error
    /\ \E k \in 1..Len(ps.stdout) :
          /\ k + 5 <= Len(ps.stdout)
          /\ ps.stdout[k] \in {"p", "P"}
          /\ ps.stdout[k + 1] \in {"y", "Y"}
          /\ ps.stdout[k + 2] \in {"t", "T"}
          /\ ps.stdout[k + 3] \in {"h", "H"}
          /\ ps.stdout[k + 4] \in {"o", "O"}
          /\ ps.stdout[k + 5] \in {"n", "N"}

\* C24: is_alive returns true exactly when the pid file holds a decimal id, the
\* OS reports a process of that id and the identity check passes; with the file
\* missing or unparsable, no such process, or a failed identity check, false.
C24_AliveIffAllThree ==
    ew.pc = "ret" =>
        (ew.out <=> /\ HasDecimalId(ew.file)
                    /\ OsReportsProcess(ew.kill)
                    /\ IdentityPasses(ew.ps))

\* The file holds " 17", the signal is refused for want of permission, ps names
\* a Python process: alive.
C24_Witness ==
    /\ ew.pc = "ret"
    /\ ew.file.exists
    /\ ew.file.text = <<" ", "1", "7">>
    /\ ew.kill = "PermissionError"
    /\ ew.ps.stdout = <<"P", "y", "t", "h", "o", "n", "\n">>
    /\ ew.out

\* C25: when the OS refuses the signal for want of permission and the identity
\* of the process is not confirmed, is_alive returns true.
C25_DeniedAndUnconfirmedIsAlive ==
    ew.pc = "ret" /\ HasDecimalId(ew.file) /\ ew.kill = "PermissionError"
                  /\ ~IdentityPasses(ew.ps)
        => ew.out

\* The outcome of a command that finds nothing to do.
NothingToDo(cmd) ==
    CASE cmd = "pause"   -> "NOT_RUNNING"
      [] cmd = "resume"  -> "NOT_RESUMABLE"
      [] cmd = "cancel"  -> "NO_ACTIVE_INTERVAL"
      [] cmd = "finish"  -> "NOT_FINISHED"

\* C26: pause, resume, cancel and finish end their read either with a row whose
\* status satisfies the precondition or with their nothing-to-do outcome; their
\* store call ends with CONCURRENT_MODIFICATION exactly when the status no longer
\* satisfies the precondition, which some transition committed since the read
\* has caused; neither failure changes the intervals or the log.
C26_TwoFailureOutcomes ==
    [][\A p \in Procs : \A cmd \in {"pause", "resume", "cancel", "finish"} :
        /\ Reads(p, cmd) =>
             IF fg'[p].pc = "commit"
             THEN /\ fg'[p].row.status \in Pre(cmd)
                  /\ StatusOf(intervals, fg'[p].row.id) = fg'[p].row.status
             ELSE /\ fg'[p].pc = "report"
                  /\ fg'[p].result = NothingToDo(cmd)
                  /\ fg'[p].result # "CONCURRENT_MODIFICATION"
                  /\ \E row \in fetch_latest_interval(intervals) :
                        row = NoRow \/ row.status \notin Pre(cmd)
                  /\ intervals' = intervals
                  /\ events' = events
        /\ Commits(p, cmd) =>
             /\ fg'[p].result \in {"OK", "SPAWN_FAILED", "CONCURRENT_MODIFICATION"}
             /\ fg'[p].result = "CONCURRENT_MODIFICATION"
                   <=> StatusOf(intervals, fg[p].row.id) \notin Pre(cmd)
             /\ fg'[p].result = "CONCURRENT_MODIFICATION" =>
                   /\ fg[p].row.status \in Pre(cmd)
                   /\ StatusOf(intervals, fg[p].row.id) # fg[p].row.status
                   /\ EventCount(events, fg[p].row.id) > fg[p].nev
                   /\ intervals' = intervals
                   /\ events' = events]_vars

\* A pause read the interval running, the worker finished it, and the pause ends
\* with CONCURRENT_MODIFICATION.
C26_Witness ==
    \E p \in Procs :
        /\ fg[p].pc = "report"
        /\ fg[p].cmd = "pause"
        /\ fg[p].result = "CONCURRENT_MODIFICATION"
        /\ intervals[1].status = "finished"
        /\ LastEventType(events, 1) = "finished"

\* C27: in every reachable state run_started_at is set exactly on the running
\* intervals, and heartbeat_at is set on running intervals only.
C27_RunFieldsOnlyWhileRunning ==
    \A i \in DOMAIN intervals :
        /\ intervals[i].run_started_at # NULL <=> intervals[i].status = "running"
        /\ intervals[i].heartbeat_at # NULL => intervals[i].status = "running"

\* The worker has written a heartbeat on interval 1 and is still bound to it;
\* the interval has since been paused, and both fields are null again.
C27_Witness ==
    /\ Len(intervals) = 1
    /\ intervals[1].status = "paused"
    /\ intervals[1].run_started_at = NULL
    /\ intervals[1].heartbeat_at = NULL
    /\ \E w \in Workers : wk[w].id = 1 /\ wk[w].last_heartbeat >= intervals[1].started_at

\* C28: ended_at is null exactly while the interval is running, paused or
\* interrupted; it is set in the step that makes the interval finished (from
\* running) or cancelled, to the time of that step's event; and once set it is
\* never changed, in particular not by the resolution.
C28_EndedAtSetOnce ==
    [][\A i \in DOMAIN intervals' :
        /\ intervals'[i].ended_at = NULL
              <=> intervals'[i].status \in {"running", "paused", "interrupted"}
        /\ i \in DOMAIN intervals =>
              /\ intervals[i].ended_at # NULL =>
                    intervals'[i].ended_at = intervals[i].ended_at
              /\ intervals[i].ended_at = NULL /\ intervals'[i].ended_at # NULL =>
                    /\ \/ /\ intervals[i].status = "running"
                          /\ intervals'[i].status = "finished"
                       \/ /\ intervals[i].status \in {"running", "paused", "interrupted"}
                          /\ intervals'[i].status = "cancelled"
                    /\ Len(events') = Len(events) + 1
                    /\ events'[Len(events')].interval_id = i
                    /\ events'[Len(events')].event_type = intervals'[i].status
                    /\ events'[Len(events')].event_at = intervals'[i].ended_at]_vars

\* Interval 1 was finished by the worker and resolved at a later time: ended_at
\* is still the time of the finish, earlier than the completed event.
C28_Witness ==
    /\ Len(intervals) = 1
    /\ intervals[1].status = "completed"
    /\ intervals[1].ended_at # NULL
    /\ LastEventType(events, 1) = "completed"
    /\ events[Len(events)].event_at > intervals[1].ended_at

\* What update_heartbeat may leave of the intervals ivs: the same intervals, but
\* for heartbeat_at = now on the addressed one if it is running.
HeartbeatOnly(ivs, after, interval_id, now) ==
    /\ DOMAIN after = DOMAIN ivs
    /\ \A i \in DOMAIN ivs :
          IF i = interval_id /\ ivs[i].status = "running"
          THEN /\ after[i].heartbeat_at = now
               /\ [after[i] EXCEPT !.heartbeat_at = ivs[i].heartbeat_at] = ivs[i]
          ELSE after[i] = ivs[i]

\* C29: update_heartbeat, called in any reachable state on any interval id, one
\* stored or not, and the worker's call of it, change nothing but heartbeat_at of
\* the addressed interval when it is running: every other column, every other
\* interval and the event log stay, and the worker goes on with its loop.
C29_HeartbeatWritesOnlyHeartbeat ==
    [][/\ \A interval_id \in 0..(MaxIntervals + 1) : \A now \in Epoch..clock :
            LET m == update_heartbeat(intervals, events, interval_id, now) IN
            /\ m.events = events
            /\ HeartbeatOnly(intervals, m.intervals, interval_id, now)
       /\ \A w \in Workers :
            wk[w].pc = "heartbeat" /\ wk'[w].pc \in {"fetch", "finish"} =>
                /\ events' = events
                /\ HeartbeatOnly(intervals, intervals', wk[w].id, wk[w].now)
                /\ wk'[w].last_heartbeat = wk[w].now]_vars

\* Interval 1 was cancelled and interval 2 started after that; later still (its
\* now is past the start of interval 2) the worker bound to interval 1 has called
\* update_heartbeat: no heartbeat is stored and the worker is still in its loop.
C29_Witness ==
    \E w \in Workers :
        /\ wk[w].pc = "fetch"
        /\ wk[w].id = 1
        /\ Len(intervals) = 2
        /\ intervals[1].status = "cancelled"
        /\ intervals[1].heartbeat_at = NULL
        /\ intervals[2].status = "running"
        /\ intervals[2].heartbeat_at = NULL
        /\ wk[w].last_heartbeat > intervals[2].started_at

\* C30: in every reachable state every interval has 0 <= worked_sec <= duration_sec.
C30_WorkedWithinDuration ==
    \A i \in DOMAIN intervals :
        /\ 0 <= intervals[i].worked_sec
        /\ intervals[i].worked_sec <= intervals[i].duration_sec

\* C31: whenever heartbeat_at and run_started_at of an interval are both set,
\* heartbeat_at >= run_started_at: the stored heartbeat belongs to the running
\* segment the interval is in.
C31_HeartbeatInCurrentSegment ==
    \A i \in DOMAIN intervals :
        intervals[i].heartbeat_at # NULL /\ intervals[i].run_started_at # NULL =>
            intervals[i].heartbeat_at >= intervals[i].run_started_at

\* C32: the stored worked_sec of an interval is never more than the seconds the
\* interval has spent running, and an interval that is finished has run for at
\* least duration_sec.
C32_WorkedWithinTimeRun ==
    \A i \in DOMAIN intervals :
        /\ intervals[i].worked_sec <= ew.ran[i]
        /\ intervals[i].status = "finished" => ew.ran[i] >= intervals[i].duration_sec

\* C33: every interval that is finished, completed or abandoned has worked_sec =
\* duration_sec; an interval becomes finished only in a step of a worker at its
\* finish call, bound to that interval; and the resolution of a finished interval
\* leaves worked_sec as it is.
C33_FinishedWorkedIsDuration ==
    [][\A i \in DOMAIN intervals' :
        /\ intervals'[i].status \in {"finished", "completed", "abandoned"} =>
              intervals'[i].worked_sec = intervals'[i].duration_sec
        /\ intervals'[i].status = "finished" /\ StatusOf(intervals, i) # "finished" =>
              /\ fg' = fg
              /\ \E w \in Workers : wk[w].pc = "finish" /\ wk[w].id = i
        /\ StatusOf(intervals, i) = "finished" =>
              intervals'[i].worked_sec = intervals[i].worked_sec]_vars

\* Interval 1, of two seconds, was finished by the worker and resolved as
\* abandoned: worked_sec is 2.
C33_Witness ==
    /\ Len(intervals) = 1
    /\ intervals[1].status = "abandoned"
    /\ intervals[1].duration_sec = 2
    /\ intervals[1].worked_sec = 2
    /\ LastEventType(events, 1) = "abandoned"

\* C34: whenever an active interval exists, fetch_latest_interval returns that
\* interval and no other, also when an older, terminated interval has the same
\* started_at.
C34_LatestIsTheActive ==
    \A i \in Active(intervals) :
        fetch_latest_interval(intervals) = {to_interval_row(intervals[i])}

====
